---- MODULE Spec2Model ----
(***************************************************************************)
(* The client-side conversation state engine of the chat page: the send    *)
(* cycle (sendQuestion), the bounded conversation history, the response    *)
(* normalizer (displayResponse), the connection monitor                    *)
(* (checkConnection / updateStatus) and the @mention engine                *)
(* (handleInputChange, handleKeyDown, selectAgent).                        *)
(*                                                                         *)
(* The repository holds two near-duplicate clients: src/web/app.js         *)
(* (variant "app") and src/unnamed/part_000 (variant "part000").  Both are *)
(* modelled; the variable `variant` says which script the page runs.       *)
(*                                                                         *)
(* Texts are sequences of tokens (one-character strings for typed input,   *)
(* longer strings for fixed pieces such as "Error: ").                     *)
(***************************************************************************)
EXTENDS Integers, Sequences, FiniteSets, TLC

VARIABLES
    variant,          \* which client script runs: "app" or "part000"
    conversation,     \* state.conversation
    questionInput,    \* elements.questionInput.value
    sendBtnDisabled,  \* elements.sendBtn.disabled
    statusIndicator,  \* elements.statusIndicator badge: "none", "connected", "disconnected"
    chatArea,         \* children of elements.chatArea, in document order
    inflight,         \* POST /chat requests issued and not yet settled
    sends,            \* number of requests issued so far (next request id - 1)
    handling,         \* id of the cycle whose response is being displayed, 0 if none
    pendingItems,     \* response items the running forEach has still to display
    pollsInFlight,    \* GET /health requests issued and not yet settled
    pollsScheduled,   \* setTimeout(checkConnection) timers not yet fired
    appended,         \* history variable: every turn pushed to the conversation, in push order
    lastEvent,        \* history variable: the last step of a send cycle and what it did
    lastReply,        \* history variable: what the chat request settled last has settled with
    agents,           \* state.agents
    teamList,         \* the items renderTeamList has put into elements.teamList
    agentLoads,       \* GET /agents requests issued and not yet settled
    selectionStart,   \* elements.questionInput.selectionStart, counted from 0
    currentMention,   \* state.currentMention
    selectedSuggestionIndex,  \* state.selectedSuggestionIndex
    suggestionsActive,        \* elements.agentSuggestions has the class "active"
    suggestions,      \* the items showSuggestions has put into elements.agentSuggestions
    anchorIndex       \* history variable: the atIndex of the last handleInputChange
                      \* that opened the suggestion list, -1 when the last one closed it

\* the @mention engine
mentionVars == <<agents, teamList, agentLoads, selectionStart, currentMention,
                 selectedSuggestionIndex, suggestionsActive, suggestions, anchorIndex>>

vars == <<variant, conversation, questionInput, sendBtnDisabled, statusIndicator,
          chatArea, inflight, sends, handling, pendingItems, pollsInFlight,
          pollsScheduled, appended, lastEvent, lastReply, agents, teamList,
          agentLoads, selectionStart, currentMention, selectedSuggestionIndex,
          suggestionsActive, suggestions, anchorIndex>>

\* ------------------------------------------------------------------ bounds

MaxSends == 2
MaxShapeSends == 1
MaxPollChains == 2
MaxAgentLoads == 1
MaxInputLen == 2
TeamRounds == 2

\* --------------------------------------------------------------- constants

MAX_CONVERSATION_LENGTH == 10

Variants == {"app", "part000"}

\* ------------------------------------------------------------------- texts

IsBlank(c) == c \in {" ", "\n", "\t"}

RECURSIVE TrimStart(_)
TrimStart(s) == IF s # <<>> /\ IsBlank(Head(s)) THEN TrimStart(Tail(s)) ELSE s

RECURSIVE TrimEnd(_)
TrimEnd(s) ==
    IF s # <<>> /\ IsBlank(s[Len(s)]) THEN TrimEnd(SubSeq(s, 1, Len(s) - 1)) ELSE s

\* A submit that takes the field's value as it is.
TrimNothing(s) == s

\* A trim of the leading whitespace only.
TrimStartOnly(s) == TrimStart(s)

\* String.prototype.trim
Trim(s) == TrimEnd(TrimStart(s))

\* The values the user leaves in the input field.
TypedInputs == { <<" ">>, <<" ", "h", "i", " ">> }

\* ------------------------------------------------------------ conversation

Turn(role, text) == [role |-> role, text |-> text]

\* A trim that keeps the oldest turns instead of the newest.
SpliceKeepOldest(conv) ==
    IF Len(conv) > MAX_CONVERSATION_LENGTH
    THEN SubSeq(conv, 1, MAX_CONVERSATION_LENGTH)
    ELSE conv

\* if (length > MAX) splice(0, length - MAX): drops the oldest turns
SpliceFront(conv) ==
    IF Len(conv) > MAX_CONVERSATION_LENGTH
    THEN SubSeq(conv, Len(conv) - MAX_CONVERSATION_LENGTH + 1, Len(conv))
    ELSE conv

\* A push that puts the user turn in front of the history.
PushUserTurnAtFront(conv, question) == SpliceFront(<<Turn("user", question)>> \o conv)

\* the push and trim of sendQuestion
PushUserTurn(conv, question) == SpliceFront(Append(conv, Turn("user", question)))

\* ------------------------------------------------------------- JSON values

JUndefined == [t |-> "undefined"]
JNull == [t |-> "null"]
JStr(s) == [t |-> "str", s |-> s]
JNum(n) == [t |-> "num", n |-> n]
JArr(a) == [t |-> "arr", a |-> a]
\* An object is the sequence of its <<key, value>> members, in insertion order.
JObj(kv) == [t |-> "obj", kv |-> kv]

\* v.k for a value that is neither null nor undefined.
Get(v, k) ==
    IF v.t = "obj" /\ \E i \in DOMAIN v.kv : v.kv[i][1] = k
    THEN v.kv[CHOOSE i \in DOMAIN v.kv : v.kv[i][1] = k][2]
    ELSE JUndefined

\* v.k raises a TypeError.
AccessThrows(v) == v.t \in {"null", "undefined"}

Truthy(v) ==
    CASE v.t \in {"null", "undefined"} -> FALSE
      [] v.t = "str" -> v.s # <<>>
      [] v.t = "num" -> v.n # 0
      [] OTHER -> TRUE

IsArray(v) == v.t = "arr"

RECURSIVE Join(_, _)
Join(pieces, sep) ==
    IF pieces = <<>> THEN <<>>
    ELSE IF Len(pieces) = 1 THEN pieces[1]
    ELSE pieces[1] \o sep \o Join(Tail(pieces), sep)

\* String(v), also the coercion a template literal applies.
RECURSIVE ToText(_)
ToText(v) ==
    CASE v.t = "str" -> v.s
      [] v.t = "num" -> <<ToString(v.n)>>
      [] v.t = "null" -> <<"null">>
      [] v.t = "undefined" -> <<"undefined">>
      [] v.t = "arr" ->
            Join([i \in DOMAIN v.a |->
                    IF v.a[i].t \in {"null", "undefined"} THEN <<>> ELSE ToText(v.a[i])],
                 <<",">>)
      [] OTHER -> <<"[object Object]">>

\* JSON.stringify(v), and JSON.stringify(v, null, 2) when pretty: the pretty form
\* breaks the line after every opening bracket, comma and before every closing one.
RECURSIVE Stringify(_, _)
Stringify(v, pretty) ==
    LET nl == IF pretty THEN <<"\n">> ELSE <<>>
        sp == IF pretty THEN <<" ">> ELSE <<>>
    IN CASE v.t = "str" -> <<"\"">> \o v.s \o <<"\"">>
         [] v.t = "num" -> <<ToString(v.n)>>
         [] v.t \in {"null", "undefined"} -> <<"null">>
         [] v.t = "arr" ->
               IF v.a = <<>> THEN <<"[]">>
               ELSE <<"[">> \o nl
                    \o Join([i \in DOMAIN v.a |-> Stringify(v.a[i], pretty)], <<",">> \o nl)
                    \o nl \o <<"]">>
         [] OTHER ->
               IF v.kv = <<>> THEN <<"{}">>
               ELSE <<"{">> \o nl
                    \o Join([i \in DOMAIN v.kv |->
                               <<"\"", v.kv[i][1], "\"", ":">> \o sp
                               \o Stringify(v.kv[i][2], pretty)],
                            <<",">> \o nl)
                    \o nl \o <<"}">>

\* Object.keys(v).length for a value that is neither null nor undefined.
KeyCount(v) ==
    CASE v.t = "obj" -> Len(v.kv)
      [] v.t = "arr" -> Len(v.a)
      [] v.t = "str" -> Len(v.s)
      [] OTHER -> 0

\* --------------------------------------------------------- displayResponse

NoResponse == <<"No response received">>

\* The a || b || c of JavaScript over values.
Or2(a, b) == IF Truthy(a) THEN a ELSE b

MessagePiece(msg) ==
    IF msg.t = "str" THEN msg.s
    ELSE ToText(Or2(Get(msg, "content"),
                Or2(Get(msg, "text"),
                Or2(Get(msg, "output"), JStr(Stringify(msg, FALSE))))))

\* The text-extraction chain of displayResponse; result is not null.
ResponseText(result) ==
    IF result.t = "str" THEN result.s
    ELSE IF Truthy(Get(result, "output")) THEN ToText(Get(result, "output"))
    ELSE IF Truthy(Get(result, "response")) THEN ToText(Get(result, "response"))
    ELSE IF Truthy(Get(result, "messages")) /\ IsArray(Get(result, "messages"))
    THEN LET ms == Get(result, "messages").a
         IN Join([i \in DOMAIN ms |-> MessagePiece(ms[i])], <<"\n", "\n">>)
    ELSE IF KeyCount(result) > 0 THEN Stringify(result, TRUE)
    ELSE NoResponse

\* `if (responseText)`: the test is made on the value the chain has picked,
\* before it is turned into text.  A truthy `output` or `response` passes as
\* it is; a string, the joined messages, the dump and the placeholder are
\* strings and pass when not empty.
StoresTurn(result) ==
    IF result.t = "str" THEN result.s # <<>>
    ELSE IF Truthy(Get(result, "output")) \/ Truthy(Get(result, "response")) THEN TRUE
    ELSE ResponseText(result) # <<>>

\* displayResponse(result) raises a TypeError before it displays anything.
DisplayThrows(result) ==
    \/ AccessThrows(result)
    \/ /\ result.t # "str"
       /\ ~Truthy(Get(result, "output"))
       /\ ~Truthy(Get(result, "response"))
       /\ Truthy(Get(result, "messages")) /\ IsArray(Get(result, "messages"))
       /\ \E i \in DOMAIN Get(result, "messages").a :
              AccessThrows(Get(result, "messages").a[i])

IsObject(v) == v.t \in {"obj", "arr"}

\* A header that looks at the `agent` field before agent_meta.name.
AgentNameAgentFirst(result) ==
    IF ~IsObject(result) THEN <<>>
    ELSE IF Truthy(Get(result, "agent")) THEN ToText(Get(result, "agent"))
    ELSE IF Truthy(Get(result, "agent_meta")) /\ Truthy(Get(Get(result, "agent_meta"), "name"))
    THEN ToText(Get(Get(result, "agent_meta"), "name"))
    ELSE <<>>

AgentName(result) ==
    IF ~IsObject(result) THEN <<>>
    ELSE IF Truthy(Get(result, "agent_meta")) /\ Truthy(Get(Get(result, "agent_meta"), "name"))
    THEN ToText(Get(Get(result, "agent_meta"), "name"))
    ELSE IF Truthy(Get(result, "agent")) THEN ToText(Get(result, "agent"))
    ELSE <<>>

AvatarUrl(result) ==
    IF ~IsObject(result) THEN <<>>
    ELSE IF Truthy(Get(result, "agent_avatar")) THEN ToText(Get(result, "agent_avatar"))
    ELSE IF Truthy(Get(result, "agent_meta"))
            /\ Truthy(Get(Get(result, "agent_meta"), "avatar_url"))
    THEN ToText(Get(Get(result, "agent_meta"), "avatar_url"))
    ELSE <<>>

\* The role badge, rendered by part_000 only.
RoleInfo(v, result) ==
    IF v = "part000" /\ IsObject(result) /\ Truthy(Get(result, "role"))
    THEN ToText(Get(result, "role"))
    ELSE <<>>

EscapeHtml(s) ==
    [i \in DOMAIN s |->
        CASE s[i] = "&" -> "&amp;"
          [] s[i] = "<" -> "&lt;"
          [] s[i] = ">" -> "&gt;"
          [] s[i] = "\"" -> "&quot;"
          [] s[i] = "'" -> "&#039;"
          [] OTHER -> s[i]]

BreakLines(s) == [i \in DOMAIN s |-> IF s[i] = "\n" THEN "<br />" ELSE s[i]]

\* The header line above a bubble: the avatar shows only beside an agent name.
Header(v, result) ==
    LET name == AgentName(result)
    IN [name |-> name,
        avatar |-> IF name # <<>> THEN AvatarUrl(result) ELSE <<>>,
        role |-> RoleInfo(v, result)]

NoHeader == [name |-> <<>>, avatar |-> <<>>, role |-> <<>>]

\* The turn displayResponse stores, when it stores one.
AssistantTurn(result) ==
    LET name == AgentName(result)
        prefix == IF name # <<>> THEN <<"(">> \o name \o <<")", " ">> ELSE <<>>
    IN Turn("assistant", prefix \o ResponseText(result))

\* A push that leaves the trimming to the next send.
PushAssistantTurnNoTrim(conv, result) == Append(conv, AssistantTurn(result))

\* the push and trim of displayResponse
PushAssistantTurn(conv, result) == SpliceFront(Append(conv, AssistantTurn(result)))

\* ------------------------------------------------------------ message log

\* One child of the chat area.  A loading placeholder carries the id of the
\* cycle that created it (the loadingEl that cycle holds on to).
El(cls, loading, id, html, header, text) ==
    [cls |-> cls, loading |-> loading, id |-> id, html |-> html,
     header |-> header, text |-> text]

\* addMessage(content, role): textContent, no header
TextMessage(role, text) == El(role, FALSE, 0, FALSE, NoHeader, text)

\* addLoadingMessage() of cycle id
LoadingMessage(id) == El("assistant", TRUE, id, FALSE, NoHeader, <<>>)

\* addMessage(headerHtml + safeText, "assistant", true) of displayResponse
DisplayMessage(v, result) ==
    El("assistant", FALSE, 0, TRUE, Header(v, result),
       BreakLines(EscapeHtml(ResponseText(result))))

IsLoading(el, id) == el.loading /\ el.id = id

\* removeMessage(loadingEl): detaches the element; a no-op once it is detached
RemoveLoading(area, id) ==
    LET keep == {i \in DOMAIN area : ~IsLoading(area[i], id)}
        F[i \in 0..Len(area)] ==
            IF i = 0 THEN <<>>
            ELSE IF i \in keep THEN Append(F[i - 1], area[i]) ELSE F[i - 1]
    IN F[Len(area)]

IsErrorMessage(el) ==
    el.cls = "assistant" /\ ~el.loading /\ ~el.html /\ el.text # <<>> /\ el.text[1] = "Error: "

\* --------------------------------------------------------------- the server

\* What fetch(CONFIG.ENDPOINT) settles with.  kind "reject": the promise rejects
\* with an error of the given message.  kind "http": a response with the given
\* status; its body is the JSON text of `value` when json, else the raw `text`.
Reject(message) ==
    [kind |-> "reject", status |-> 0, statusText |-> message, json |-> FALSE,
     value |-> JUndefined, text |-> <<>>]

\* No chat request has settled yet.
NoReply ==
    [kind |-> "none", status |-> 0, statusText |-> <<>>, json |-> FALSE,
     value |-> JUndefined, text |-> <<>>]

HttpJson(status, statusText, value) ==
    [kind |-> "http", status |-> status, statusText |-> statusText, json |-> TRUE,
     value |-> value, text |-> <<>>]

HttpText(status, statusText, text) ==
    [kind |-> "http", status |-> status, statusText |-> statusText, json |-> FALSE,
     value |-> JUndefined, text |-> text]

\* response.ok
Ok(reply) == reply.status \in 200..299

\* await response.text()
BodyText(reply) == IF reply.json THEN Stringify(reply.value, FALSE) ELSE reply.text

AgentReply(name, out) ==
    JObj(<< <<"output", JStr(out)>>, <<"agent", JStr(name)>> >>)

AgentNames == <<"Strategy", "Architect", "Analyst", "Builder", "Reviewer">>

\* A reply of the five-agent team: every agent answers in each of TeamRounds turns.
TeamReply ==
    JObj(<< <<"responses",
              JArr([i \in 1..(TeamRounds * Len(AgentNames)) |->
                      AgentReply(<<AgentNames[((i - 1) % Len(AgentNames)) + 1]>>,
                                 <<"turn ", ToString(i)>>)])>> >>)

ChatReplies ==
    { Reject(<<"Failed to fetch">>),
      HttpJson(500, <<"Internal Server Error">>, JObj(<< <<"detail", JStr(<<"boom">>)>> >>)),
      HttpJson(200, <<"OK">>, AgentReply(<<"Bob">>, <<"x">>)),
      HttpJson(200, <<"OK">>, TeamReply),
      HttpJson(200, <<"OK">>, JNull),
      HttpJson(200, <<"OK">>,
               JObj(<< <<"responses", JArr(<< JStr(<<"y">>), JNull >>)>> >>)) }

Member(k, v) == <<k, v>>

\* One response object, of every shape displayResponse tells apart.
ResponseShapes ==
    { JStr(<<"hello">>),
      JStr(<<>>),
      JNum(5),
      JNull,
      JObj(<<>>),
      JArr(<<JStr(<<"a">>)>>),
      AgentReply(<<"Bob">>, <<"x">>),
      JObj(<<Member("output", JStr(<<"<", "b", ">", "&", "\n", "'", "q", "\"">>))>>),
      JObj(<<Member("output", JStr(<<>>)), Member("response", JStr(<<"r">>))>>),
      JObj(<<Member("response", JStr(<<"r">>)),
             Member("messages", JArr(<<JStr(<<"m">>)>>))>>),
      JObj(<<Member("messages",
                    JArr(<<JStr(<<"a">>),
                           JObj(<<Member("content", JStr(<<"c">>)),
                                  Member("text", JStr(<<"t">>))>>),
                           JObj(<<Member("text", JStr(<<"t">>)),
                                  Member("output", JStr(<<"o">>))>>),
                           JObj(<<Member("output", JStr(<<"o">>))>>),
                           JObj(<<Member("k", JNum(1))>>)>>))>>),
      JObj(<<Member("messages", JArr(<<>>))>>),
      JObj(<<Member("messages", JArr(<<JNull>>)), Member("agent", JStr(<<"Bob">>))>>),
      JObj(<<Member("foo", JNum(1))>>),
      JObj(<<Member("output", JArr(<<>>))>>),
      JObj(<<Member("responses", JStr(<<"none">>)), Member("output", JStr(<<"o">>))>>),
      JObj(<<Member("output", JStr(<<"x">>)),
             Member("agent_meta", JObj(<<Member("name", JStr(<<>>))>>)),
             Member("agent", JStr(<<"Bob">>))>>),
      JObj(<<Member("output", JStr(<<"x">>)),
             Member("agent", JStr(<<"Bob">>)),
             Member("agent_avatar", JStr(<<"a.png">>)),
             Member("agent_meta", JObj(<<Member("name", JStr(<<"Ann">>)),
                                         Member("avatar_url", JStr(<<"u.png">>))>>))>>),
      JObj(<<Member("output", JStr(<<"x">>)),
             Member("agent_avatar", JStr(<<>>)),
             Member("agent_meta", JObj(<<Member("name", JStr(<<"Ann">>)),
                                         Member("avatar_url", JStr(<<"u.png">>))>>))>>),
      JObj(<<Member("output", JStr(<<"x">>)), Member("agent_avatar", JStr(<<"a.png">>))>>),
      JObj(<<Member("output", JStr(<<"x">>)), Member("role", JStr(<<"lead">>))>>) }

\* The replies of the backend, one of every kind the 2xx branch, the non-2xx
\* branch and the catch block tell apart.
ReplyShapes ==
    { HttpJson(200, <<"OK">>, v) : v \in ResponseShapes }
    \cup
    { HttpJson(200, <<"OK">>,
               JObj(<<Member("responses",
                             JArr(<<JStr(<<"y">>),
                                    JObj(<<Member("output", JStr(<<"z">>)),
                                           Member("agent_meta",
                                                  JObj(<<Member("name", JStr(<<"Ann">>))>>))>>),
                                    JObj(<<>>),
                                    JStr(<<>>),
                                    JStr(<<"y">>)>>))>>)),
      HttpJson(200, <<"OK">>,
               JObj(<<Member("responses", JArr(<<JStr(<<"y">>), JNull, JStr(<<"z">>)>>))>>)),
      HttpJson(200, <<"OK">>, JObj(<<Member("responses", JArr(<<>>))>>)),
      HttpText(200, <<"OK">>, <<"plain ", "<", "text", ">">>),
      HttpText(200, <<"OK">>, <<>>),
      HttpJson(500, <<"Internal Server Error">>, JObj(<<Member("detail", JStr(<<"boom">>))>>)),
      HttpJson(500, <<"Internal Server Error">>,
               JObj(<<Member("message", JStr(<<"m">>)), Member("detail", JStr(<<"d">>))>>)),
      HttpJson(422, <<"Unprocessable Entity">>, JObj(<<Member("message", JStr(<<"m">>))>>)),
      HttpJson(400, <<"Bad Request">>, JObj(<<Member("error", JStr(<<"e">>))>>)),
      HttpJson(500, <<"Internal Server Error">>, JNull),
      HttpText(404, <<"Not Found">>, <<"no such page">>),
      HttpText(502, <<"Bad Gateway">>, <<>>),
      HttpText(503, <<>>, <<>>),
      Reject(<<"Failed to fetch">>) }

\* What fetch(CONFIG.HEALTH_ENDPOINT) settles with.
HealthOutcomes == {"ok", "status", "reject"}

\* ------------------------------------------------------- the @mention engine

\* One entry of the roster GET /agents returns.  Of an agent's four fields
\* (key, name, role, avatar) the engine reads key and name; role and avatar are
\* only copied into markup.
Agent(key, name) == [key |-> key, name |-> name]

Ann == Agent(<<"d","e","v">>, <<"A","n"," ","X">>)
Bo  == Agent(<<"a","n","y">>, <<"B","o">>)
Ed  == Agent(<<"o","p","s">>, <<"E","d">>)
\* an agent keyed by a mail-like handle
Al  == Agent(<<"a","l","@","x">>, <<"A","l">>)

\* two agents of the team, keyed by their lowercased names
Strategy  == Agent(<<"s","t","r","a","t","e","g","y">>,
                   <<"S","t","r","a","t","e","g","y">>)
Architect == Agent(<<"a","r","c","h","i","t","e","c","t">>,
                   <<"A","r","c","h","i","t","e","c","t">>)

\* The rosters of the team, and the ways their request settles.
TeamRosters == { <<Strategy>>, <<Architect, Strategy>> }
TeamOutcomes == { [ok |-> TRUE, agents |-> r] : r \in TeamRosters }

\* The rosters the server answers with.
Rosters == { <<>>, <<Ann, Bo, Ed>>, <<Al>> }

\* The ways a loadAgents() request settles: a 2xx answer with a roster, or a
\* non-2xx answer or rejection.
AgentOutcomes == { [ok |-> TRUE, agents |-> r] : r \in Rosters }
                 \cup { [ok |-> FALSE, agents |-> <<>>] }

UpperCase == <<"A","B","C","D","E","F","G","H","I","J","K","L","M",
               "N","O","P","Q","R","S","T","U","V","W","X","Y","Z">>
LowerCase == <<"a","b","c","d","e","f","g","h","i","j","k","l","m",
               "n","o","p","q","r","s","t","u","v","w","x","y","z">>

ToLowerChar(c) ==
    IF \E i \in DOMAIN UpperCase : UpperCase[i] = c
    THEN LowerCase[CHOOSE i \in DOMAIN UpperCase : UpperCase[i] = c]
    ELSE c

\* String.prototype.toLowerCase
ToLowerCase(s) == [i \in DOMAIN s |-> ToLowerChar(s[i])]

Min(a, b) == IF a < b THEN a ELSE b
Max(a, b) == IF a < b THEN b ELSE a

\* String.prototype.includes
Includes(s, sub) ==
    \E i \in 0..(Len(s) - Len(sub)) : SubSeq(s, i + 1, i + Len(sub)) = sub

\* s.lastIndexOf(c, fromIndex) for a one-character c: the greatest index, from
\* 0, at or before fromIndex that holds c, or -1.  A negative fromIndex counts
\* as 0.
LastIndexOf(s, c, fromIndex) ==
    LET hits == { i \in 0..(Len(s) - 1) : i <= Max(0, fromIndex) /\ s[i + 1] = c }
    IN IF hits = {} THEN -1 ELSE CHOOSE i \in hits : \A j \in hits : j <= i

\* s.substring(a, b): both ends are brought into 0..length and swapped when
\* a > b.
Substring(s, a, b) ==
    LET lo == Max(0, Min(Min(a, b), Len(s)))
        hi == Max(0, Min(Max(a, b), Len(s)))
    IN SubSeq(s, lo + 1, hi)

\* A query ended by a newline only.
AbandonedByNewlineOnly(afterAt) == Includes(afterAt, <<"\n">>)

\* afterAt.includes(" ") || afterAt.includes("\n")
Abandoned(afterAt) == Includes(afterAt, <<" ">>) \/ Includes(afterAt, <<"\n">>)

\* A filter that looks at the name only.
MatchesNameOnly(agent, mention) == Includes(ToLowerCase(agent.name), mention)

\* the predicate of state.agents.filter in handleInputChange
Matches(agent, mention) ==
    \/ Includes(ToLowerCase(agent.name), mention)
    \/ Includes(ToLowerCase(agent.key), mention)

\* state.agents.filter(...): the matching agents, in the order of the roster
FilterAgents(roster, mention) ==
    LET F[i \in 0..Len(roster)] ==
            IF i = 0 THEN <<>>
            ELSE IF Matches(roster[i], mention) THEN Append(F[i - 1], roster[i])
            ELSE F[i - 1]
    IN F[Len(roster)]

\* An append that never puts a space before the "@".
AppendMentionNoSpace(text, name) ==
    LET value == text \o <<"@">> \o name \o <<" ">>
    IN [text |-> value, cursor |-> Len(value)]

\* selectAgent, the branch of a click in the sidebar with the list closed
AppendMention(text, name) ==
    LET needsSpace == text # <<>> /\ text[Len(text)] # " "
        value == text \o (IF needsSpace THEN <<" ">> ELSE <<>>) \o <<"@">> \o name \o <<" ">>
    IN [text |-> value, cursor |-> Len(value)]

\* A replacement that drops the text before the "@".
ReplaceMentionWholeStart(text, cursor, name) ==
    LET atIndex == LastIndexOf(text, "@", Len(text))
        afterCursor == Substring(text, cursor, Len(text))
        value == <<"@">> \o name \o <<" ">> \o afterCursor
    IN IF atIndex # -1
       THEN [text |-> value, cursor |-> Len(name) + 2]
       ELSE [text |-> text, cursor |-> cursor]

\* selectAgent, the branch taken while the suggestion list is active: the "@"
\* is looked for in the whole text.
ReplaceMention(text, cursor, name) ==
    LET atIndex == LastIndexOf(text, "@", Len(text))
        beforeAt == Substring(text, 0, atIndex)
        afterCursor == Substring(text, cursor, Len(text))
        value == beforeAt \o <<"@">> \o name \o <<" ">> \o afterCursor
    IN IF atIndex # -1
       THEN [text |-> value, cursor |-> Min(Len(beforeAt) + Len(name) + 2, Len(value))]
       ELSE [text |-> text, cursor |-> cursor]

\* An ArrowDown that goes round to the first item.
NextIndexWrapping(index, maxIndex) == IF index >= maxIndex THEN 0 ELSE index + 1

\* Math.min(state.selectedSuggestionIndex + 1, maxIndex)
NextIndex(index, maxIndex) == Min(index + 1, maxIndex)

\* Math.max(state.selectedSuggestionIndex - 1, -1)
PreviousIndex(index) == Max(index - 1, -1)

\* The texts an input event leaves in the field, next to TypedInputs; the
\* caret may stand anywhere in them.
MentionTexts ==
    { <<"@">>,
      <<"h","i"," ","@","A","N">>,
      <<"@","a","n"," ","x","@","y">>,
      <<"@","o","\n">>,
      <<"@","z">> }

\* ------------------------------------------------------------ the handlers

Event(op, kind, id) == [op |-> op, kind |-> kind, id |-> id]

\* A body that stays the live state.conversation array.
RequestBodyByReference(conv) == [serialized |-> FALSE, messages |-> conv]

\* body: JSON.stringify(payload): the request carries the text of the turns as
\* they are when fetch is called, not the payload object that refers to them.
RequestBody(conv) == [serialized |-> TRUE, messages |-> conv]

\* The turns a request in flight carries.
SentMessages(r) == IF r.body.serialized THEN r.body.messages ELSE conversation

\* A request built from the history without its newest turn.
RequestBeforePush(id, conv) ==
    [id |-> id, body |-> RequestBody(SubSeq(conv, 1, Len(conv) - 1))]

Request(id, conv) == [id |-> id, body |-> RequestBody(conv)]

PollChains == pollsInFlight + pollsScheduled

\* initializeApp(): the listeners are registered, loadAgents() and
\* checkConnection() each issue their request.  The markup is not part of the
\* scripts; the send button starts as a button does by default, enabled.
Init ==
    /\ variant \in Variants
    /\ conversation = <<>>
    /\ questionInput = <<>>
    /\ sendBtnDisabled = FALSE
    /\ statusIndicator = "none"
    /\ chatArea = <<>>
    /\ inflight = {}
    /\ sends = 0
    /\ handling = 0
    /\ pendingItems = <<>>
    /\ pollsInFlight = 1
    /\ pollsScheduled = 0
    /\ appended = <<>>
    /\ lastEvent = Event("init", "", 0)
    /\ lastReply = NoReply
    /\ agents = <<>>
    /\ teamList = <<>>
    /\ agentLoads = 1
    /\ selectionStart = 0
    /\ currentMention = <<>>
    /\ selectedSuggestionIndex = -1
    /\ suggestionsActive = FALSE
    /\ suggestions = <<>>
    /\ anchorIndex = -1

\* No handler is in the middle of its synchronous run.
LoopIdle == handling = 0

\* updateStatus(connected)
UpdateStatus(connected) ==
    /\ statusIndicator' = IF connected THEN "connected" ELSE "disconnected"
    /\ sendBtnDisabled' = ~connected

\* A checkConnection that gives up after a failed poll.
HealthSettlesUntilFailure(outcome) ==
    /\ LoopIdle
    /\ pollsInFlight > 0
    /\ UpdateStatus(outcome = "ok")
    /\ pollsInFlight' = pollsInFlight - 1
    /\ pollsScheduled' = IF outcome = "ok" THEN pollsScheduled + 1 ELSE pollsScheduled
    /\ UNCHANGED <<variant, conversation, questionInput, chatArea, inflight, sends,
                   handling, pendingItems, appended, lastEvent, lastReply>>
    /\ UNCHANGED mentionVars

\* checkConnection(), from the settling of its fetch on
HealthSettles(outcome) ==
    /\ LoopIdle
    /\ pollsInFlight > 0
    /\ UpdateStatus(outcome = "ok")
    /\ pollsInFlight' = pollsInFlight - 1
    /\ pollsScheduled' = pollsScheduled + 1
    /\ UNCHANGED <<variant, conversation, questionInput, chatArea, inflight, sends,
                   handling, pendingItems, appended, lastEvent, lastReply>>
    /\ UNCHANGED mentionVars

\* the setTimeout(checkConnection, HEALTH_CHECK_INTERVAL) timer fires
HealthTimer ==
    /\ LoopIdle
    /\ pollsScheduled > 0
    /\ pollsScheduled' = pollsScheduled - 1
    /\ pollsInFlight' = pollsInFlight + 1
    /\ UNCHANGED <<variant, conversation, questionInput, sendBtnDisabled,
                   statusIndicator, chatArea, inflight, sends, handling, pendingItems,
                   appended, lastEvent, lastReply>>
    /\ UNCHANGED mentionVars

\* loadAgents(), from the settling of its fetch on; renderTeamList() runs only
\* after a 2xx answer, and an empty roster leaves a placeholder in the sidebar
AgentsSettle(outcome) ==
    /\ LoopIdle
    /\ agentLoads > 0
    /\ agentLoads' = agentLoads - 1
    /\ agents' = outcome.agents
    /\ teamList' = IF outcome.ok THEN outcome.agents ELSE teamList
    /\ UNCHANGED <<variant, conversation, questionInput, sendBtnDisabled,
                   statusIndicator, chatArea, inflight, sends, handling, pendingItems,
                   pollsInFlight, pollsScheduled, appended, lastEvent, lastReply,
                   selectionStart, currentMention, selectedSuggestionIndex,
                   suggestionsActive, suggestions, anchorIndex>>

\* A close that keeps the query text.
CloseSuggestionsKeepingQuery ==
    /\ suggestionsActive' = FALSE
    /\ selectedSuggestionIndex' = -1
    /\ UNCHANGED <<currentMention, suggestions>>

\* closeSuggestions(); the items stay in the hidden list
CloseSuggestions ==
    /\ suggestionsActive' = FALSE
    /\ currentMention' = <<>>
    /\ selectedSuggestionIndex' = -1
    /\ UNCHANGED suggestions

\* A list that opens with the highlight it had.
ShowSuggestionsKeepingIndex(filtered) ==
    /\ suggestions' = filtered
    /\ suggestionsActive' = TRUE
    /\ UNCHANGED selectedSuggestionIndex

\* showSuggestions(filtered)
ShowSuggestions(filtered) ==
    /\ suggestions' = filtered
    /\ suggestionsActive' = TRUE
    /\ selectedSuggestionIndex' = -1

\* handleInputChange: the field holds `text`, the caret stands at `cursor`
HandleInputChange(text, cursor) ==
    LET atIndex == LastIndexOf(text, "@", cursor - 1)
        afterAt == Substring(text, atIndex + 1, cursor)
        filtered == FilterAgents(agents, ToLowerCase(afterAt))
    IN /\ LoopIdle
       /\ questionInput' = text
       /\ selectionStart' = cursor
       /\ IF atIndex # -1 /\ ~Abandoned(afterAt) /\ filtered # <<>>
          THEN /\ currentMention' = ToLowerCase(afterAt)
               /\ ShowSuggestions(filtered)
               /\ anchorIndex' = atIndex
          ELSE /\ CloseSuggestions
               /\ anchorIndex' = -1
       /\ UNCHANGED <<variant, conversation, sendBtnDisabled, statusIndicator,
                      chatArea, inflight, sends, handling, pendingItems, pollsInFlight,
                      pollsScheduled, appended, lastEvent, lastReply, agents, teamList,
                      agentLoads>>

\* the user types a text, which leaves the caret at its end
InputEvent(text) == HandleInputChange(text, Len(text))

\* selectAgent(key, name, avatar)
SelectAgent(name) ==
    LET new == IF suggestionsActive
               THEN ReplaceMention(questionInput, selectionStart, name)
               ELSE AppendMention(questionInput, name)
    IN /\ questionInput' = new.text
       /\ selectionStart' = new.cursor
       /\ CloseSuggestions

\* selectHighlightedSuggestion()
SelectHighlightedSuggestion ==
    IF selectedSuggestionIndex + 1 \in DOMAIN suggestions
    THEN SelectAgent(suggestions[selectedSuggestionIndex + 1].name)
    ELSE UNCHANGED <<questionInput, selectionStart, currentMention,
                     selectedSuggestionIndex, suggestionsActive, suggestions>>

\* sendQuestion(), up to its first await
SendQuestion(via) ==
    LET question == Trim(questionInput)
        id == sends + 1
        conv == PushUserTurn(conversation, question)
    IN IF question = <<>>
       THEN /\ lastEvent' = Event("ignored", via, 0)
            /\ UNCHANGED <<variant, conversation, questionInput, sendBtnDisabled,
                           statusIndicator, chatArea, inflight, sends, handling,
                           pendingItems, pollsInFlight, pollsScheduled, appended,
                           lastReply, selectionStart>>
       ELSE /\ sends < MaxSends
            /\ chatArea' = chatArea \o <<TextMessage("user", question), LoadingMessage(id)>>
            /\ conversation' = conv
            /\ appended' = Append(appended, Turn("user", question))
            /\ questionInput' = <<>>
            /\ selectionStart' = 0
            /\ sendBtnDisabled' = TRUE
            /\ inflight' = inflight \cup {Request(id, conv)}
            /\ sends' = id
            /\ lastEvent' = Event("submit", via, id)
            /\ UNCHANGED <<variant, statusIndicator, handling, pendingItems,
                           pollsInFlight, pollsScheduled, lastReply>>

\* A key handler that submits on every Enter.
KeyEnterAlwaysSubmitting ==
    /\ LoopIdle
    /\ SendQuestion("enter")
    /\ UNCHANGED <<agents, teamList, agentLoads, currentMention,
                   selectedSuggestionIndex, suggestionsActive, suggestions,
                   anchorIndex>>

\* handleKeyDown, key Enter.  With the list active and an item highlighted the
\* item is taken; with the list active and nothing highlighted no branch
\* runs; with the list closed sendQuestion() runs.
KeyEnter ==
    /\ LoopIdle
    /\ IF suggestionsActive
       THEN /\ IF selectedSuggestionIndex # -1
               THEN /\ SelectHighlightedSuggestion
                    /\ lastEvent' = Event("commit", "enter", 0)
               ELSE /\ lastEvent' = Event("unhandled", "enter", 0)
                    /\ UNCHANGED <<questionInput, selectionStart, currentMention,
                                   selectedSuggestionIndex, suggestionsActive,
                                   suggestions>>
            /\ UNCHANGED <<variant, conversation, sendBtnDisabled, statusIndicator,
                           chatArea, inflight, sends, handling, pendingItems,
                           pollsInFlight, pollsScheduled, appended, lastReply>>
       ELSE /\ SendQuestion("enter")
            /\ UNCHANGED <<currentMention, selectedSuggestionIndex,
                           suggestionsActive, suggestions>>
    /\ UNCHANGED <<agents, teamList, agentLoads, anchorIndex>>

\* A click on the send button runs the button's listener and then, bubbling,
\* the document's, which closes the suggestion list; a disabled button fires
\* no click.
ClickSend ==
    /\ LoopIdle
    /\ ~sendBtnDisabled
    /\ SendQuestion("click")
    /\ CloseSuggestions
    /\ UNCHANGED <<agents, teamList, agentLoads, anchorIndex>>

\* handleKeyDown, key ArrowDown, the list active
ArrowDown ==
    /\ LoopIdle
    /\ suggestionsActive
    /\ selectedSuggestionIndex' = NextIndex(selectedSuggestionIndex, Len(suggestions) - 1)
    /\ UNCHANGED <<variant, conversation, questionInput, sendBtnDisabled,
                   statusIndicator, chatArea, inflight, sends, handling, pendingItems,
                   pollsInFlight, pollsScheduled, appended, lastEvent, lastReply,
                   agents, teamList, agentLoads, selectionStart, currentMention,
                   suggestionsActive, suggestions, anchorIndex>>

\* handleKeyDown, key ArrowUp, the list active
ArrowUp ==
    /\ LoopIdle
    /\ suggestionsActive
    /\ selectedSuggestionIndex' = PreviousIndex(selectedSuggestionIndex)
    /\ UNCHANGED <<variant, conversation, questionInput, sendBtnDisabled,
                   statusIndicator, chatArea, inflight, sends, handling, pendingItems,
                   pollsInFlight, pollsScheduled, appended, lastEvent, lastReply,
                   agents, teamList, agentLoads, selectionStart, currentMention,
                   suggestionsActive, suggestions, anchorIndex>>

\* What the steps below leave alone.
MentionFrame ==
    UNCHANGED <<variant, conversation, sendBtnDisabled, statusIndicator, chatArea,
                inflight, sends, handling, pendingItems, pollsInFlight,
                pollsScheduled, appended, lastEvent, lastReply, agents, teamList,
                agentLoads, anchorIndex>>

\* An Escape that also empties the field.
KeyEscapeClearingInput ==
    /\ LoopIdle
    /\ suggestionsActive
    /\ CloseSuggestions
    /\ questionInput' = <<>>
    /\ selectionStart' = 0
    /\ MentionFrame

\* handleKeyDown, key Escape, the list active
KeyEscape ==
    /\ LoopIdle
    /\ suggestionsActive
    /\ CloseSuggestions
    /\ UNCHANGED <<questionInput, selectionStart>>
    /\ MentionFrame

\* the click listener of the document, the target being neither the input
\* field nor the suggestion list, and no element with a listener of its own
ClickOutside ==
    /\ LoopIdle
    /\ CloseSuggestions
    /\ UNCHANGED <<questionInput, selectionStart>>
    /\ MentionFrame

\* The user moves the caret (a click in the field, ArrowLeft, ArrowRight): no
\* input event, no branch of handleKeyDown, and the document's click listener
\* leaves the list as it is.
MoveCaret(pos) ==
    /\ LoopIdle
    /\ pos \in 0..Len(questionInput)
    /\ pos # selectionStart
    /\ selectionStart' = pos
    /\ UNCHANGED <<questionInput, currentMention, selectedSuggestionIndex,
                   suggestionsActive, suggestions>>
    /\ MentionFrame

\* the click listener showSuggestions puts on the i-th item of the list
ClickSuggestion(i) ==
    /\ LoopIdle
    /\ suggestionsActive
    /\ i \in DOMAIN suggestions
    /\ SelectAgent(suggestions[i].name)
    /\ MentionFrame

\* the click listener renderTeamList puts on the i-th item of the sidebar
ClickTeamMember(i) ==
    /\ LoopIdle
    /\ i \in DOMAIN teamList
    /\ SelectAgent(teamList[i].name)
    /\ MentionFrame

\* errorText of the non-2xx branch of app.js
ErrorText(reply) ==
    IF reply.json /\ ~AccessThrows(reply.value)
    THEN ToText(Or2(Get(reply.value, "detail"),
                Or2(Get(reply.value, "message"), JStr(Stringify(reply.value, FALSE)))))
    ELSE IF BodyText(reply) # <<>> THEN BodyText(reply) ELSE reply.statusText

\* the bubble of a non-2xx response
StatusBubble(v, reply) ==
    IF v = "app"
    THEN TextMessage("assistant",
             <<"Error: ", ToString(reply.status), " - ">>
             \o (IF ErrorText(reply) # <<>> THEN ErrorText(reply) ELSE <<"Unknown error">>))
    ELSE TextMessage("assistant", <<"Error: ", ToString(reply.status)>>)

\* the bubble of the catch block of app.js
CatchBubble(message) ==
    TextMessage("assistant",
        <<"Error: ">> \o message
        \o <<". Make sure the business team is running (python run.py)">>)

TypeErrorMessage == <<"Cannot read properties of null">>

\* A 2xx branch without the fallback: a body that is not JSON leaves no result.
ParsedResultNoFallback(v, reply) == IF reply.json THEN reply.value ELSE JUndefined

\* result of the 2xx branch: the parsed body, or the body wrapped as output
ParsedResult(v, reply) ==
    IF reply.json THEN reply.value
    ELSE IF v = "app" /\ reply.text = <<>> THEN JObj(<<>>)
    ELSE JObj(<< <<"output", JStr(reply.text)>> >>)

\* the items the 2xx branch hands to displayResponse, in order
ResponseItems(result) ==
    IF IsArray(Get(result, "responses")) THEN Get(result, "responses").a ELSE <<result>>

\* What a failing cycle does from the point of failure on.  app.js: the catch
\* block (remove the placeholder, show the error) and the finally block
\* (re-enable the button).  part_000 has neither: the rejection leaves
\* sendQuestion and nothing more runs.
FailCycle(v, id, area, message) ==
    /\ chatArea' = IF v = "app" THEN Append(RemoveLoading(area, id), CatchBubble(message))
                   ELSE area
    /\ sendBtnDisabled' = IF v = "app" THEN FALSE ELSE sendBtnDisabled

\* sendQuestion(), from the settling of its fetch up to the first displayResponse
ChatSettles(r, reply) ==
    /\ LoopIdle
    /\ r \in inflight
    /\ inflight' = inflight \ {r}
    /\ lastReply' = reply
    /\ IF reply.kind = "reject"
       THEN /\ FailCycle(variant, r.id, chatArea, reply.statusText)
            /\ lastEvent' = Event("failed", "reject", r.id)
            /\ UNCHANGED <<handling, pendingItems>>
       ELSE IF ~Ok(reply)
       THEN /\ chatArea' = Append(RemoveLoading(chatArea, r.id), StatusBubble(variant, reply))
            /\ sendBtnDisabled' = FALSE
            /\ lastEvent' = Event("failed", "status", r.id)
            /\ UNCHANGED <<handling, pendingItems>>
       ELSE IF AccessThrows(ParsedResult(variant, reply))
       THEN /\ FailCycle(variant, r.id, RemoveLoading(chatArea, r.id), TypeErrorMessage)
            /\ lastEvent' = Event("failed", "throw", r.id)
            /\ UNCHANGED <<handling, pendingItems>>
       ELSE /\ chatArea' = RemoveLoading(chatArea, r.id)
            /\ handling' = r.id
            /\ pendingItems' = ResponseItems(ParsedResult(variant, reply))
            /\ lastEvent' = Event("response", "", r.id)
            /\ UNCHANGED sendBtnDisabled
    /\ UNCHANGED <<variant, conversation, questionInput, statusIndicator, sends,
                   pollsInFlight, pollsScheduled, appended>>
    /\ UNCHANGED mentionVars

\* one displayResponse(resp) of the running cycle
DisplayNext ==
    /\ handling # 0
    /\ pendingItems # <<>>
    /\ LET item == Head(pendingItems)
       IN IF DisplayThrows(item)
          THEN /\ FailCycle(variant, handling, chatArea, TypeErrorMessage)
               /\ handling' = 0
               /\ pendingItems' = <<>>
               /\ lastEvent' = Event("failed", "throw", handling)
               /\ UNCHANGED <<conversation, appended>>
          ELSE /\ chatArea' = Append(chatArea, DisplayMessage(variant, item))
               /\ IF StoresTurn(item)
                  THEN /\ conversation' = PushAssistantTurn(conversation, item)
                       /\ appended' = Append(appended, AssistantTurn(item))
                  ELSE UNCHANGED <<conversation, appended>>
               /\ pendingItems' = Tail(pendingItems)
               /\ lastEvent' = Event("display", "", handling)
               /\ UNCHANGED <<handling, sendBtnDisabled>>
    /\ UNCHANGED <<variant, questionInput, statusIndicator, inflight, sends,
                   pollsInFlight, pollsScheduled, lastReply>>
    /\ UNCHANGED mentionVars

\* The tail of part_000's sendQuestion runs initializeApp() again: the
\* listeners are the same functions and are not registered twice, one more
\* loadAgents() request is issued (counted up to MaxAgentLoads) and one more
\* checkConnection() chain starts (counted up to MaxPollChains).
Reinitialize(v) ==
    /\ pollsInFlight' = IF v = "part000" /\ PollChains < MaxPollChains
                        THEN pollsInFlight + 1 ELSE pollsInFlight
    /\ agentLoads' = IF v = "part000" /\ agentLoads < MaxAgentLoads
                     THEN agentLoads + 1 ELSE agentLoads

\* sendQuestion(), after the last displayResponse of a 2xx response
FinishCycle ==
    /\ handling # 0
    /\ pendingItems = <<>>
    /\ sendBtnDisabled' = FALSE
    /\ Reinitialize(variant)
    /\ handling' = 0
    /\ lastEvent' = Event("succeeded", "", handling)
    /\ UNCHANGED <<variant, conversation, questionInput, statusIndicator, chatArea,
                   inflight, sends, pendingItems, pollsScheduled, appended,
                   lastReply>>
    /\ UNCHANGED <<agents, teamList, selectionStart, currentMention,
                   selectedSuggestionIndex, suggestionsActive, suggestions,
                   anchorIndex>>

\* The send cycle and the connection monitor.  The texts typed hold no "@" and
\* the roster request stays pending: the steps of the @mention engine are
\* those of MentionSpec below.
Next ==
    \/ \E outcome \in HealthOutcomes : HealthSettles(outcome)
    \/ HealthTimer
    \/ \E text \in TypedInputs : InputEvent(text)
    \/ KeyEnter
    \/ ClickSend
    \/ \E r \in inflight, reply \in ChatReplies : ChatSettles(r, reply)
    \/ DisplayNext
    \/ FinishCycle

Spec == Init /\ [][Next]_vars

\* The network settles every request, timers fire, and a handler that has begun
\* runs to its end.
FairSpec ==
    /\ Spec
    /\ WF_vars(HealthTimer)
    /\ WF_vars(\E outcome \in HealthOutcomes : HealthSettles(outcome))
    /\ WF_vars(\E r \in inflight, reply \in ChatReplies : ChatSettles(r, reply))
    /\ WF_vars(DisplayNext)
    /\ WF_vars(FinishCycle)

\* The send cycle alone, with replies of every shape: the first health poll
\* stays pending (it touches neither the message log nor the history), and
\* MaxShapeSends cycles run.
ShapeNext ==
    \/ \E text \in TypedInputs : InputEvent(text)
    \/ sends < MaxShapeSends /\ KeyEnter
    \/ sends < MaxShapeSends /\ ClickSend
    \/ \E r \in inflight, reply \in ReplyShapes : ChatSettles(r, reply)
    \/ DisplayNext
    \/ FinishCycle

ShapeSpec == Init /\ [][ShapeNext]_vars

\* The @mention engine and the keyboard, up to the first request: the roster
\* arrives, the user types, moves the caret while the list is open, walks the
\* list, picks agents (from the sidebar while the field holds at most
\* MaxInputLen characters) and submits.  What follows a request is the matter
\* of Spec.
MentionNext ==
    \/ \E outcome \in AgentOutcomes : AgentsSettle(outcome)
    \/ \E text \in MentionTexts \cup TypedInputs : \E cursor \in 0..Len(text) :
           inflight = {} /\ HandleInputChange(text, cursor)
    \/ \E pos \in 0..Len(questionInput) :
           inflight = {} /\ suggestionsActive /\ MoveCaret(pos)
    \/ inflight = {} /\ ArrowDown
    \/ inflight = {} /\ ArrowUp
    \/ inflight = {} /\ KeyEnter
    \/ inflight = {} /\ KeyEscape
    \/ inflight = {} /\ ClickOutside
    \/ inflight = {} /\ ClickSend
    \/ \E i \in 1..Len(suggestions) : inflight = {} /\ ClickSuggestion(i)
    \/ \E i \in 1..Len(teamList) :
           inflight = {} /\ Len(questionInput) <= MaxInputLen /\ ClickTeamMember(i)

MentionSpec == Init /\ [][MentionNext]_vars

\* A mention typed behind a greeting.
TeamTexts == { <<"h","i"," ","@","S","t","r">> }

\* The @mention engine with the roster of the team, up to the first request:
\* the user types "hi @Str" or a plain text, walks the list, takes an agent
\* with Enter, leaves the list with Escape, submits.
TeamNext ==
    \/ \E outcome \in TeamOutcomes : AgentsSettle(outcome)
    \/ \E text \in TeamTexts \cup TypedInputs : \E cursor \in 0..Len(text) :
           inflight = {} /\ HandleInputChange(text, cursor)
    \/ inflight = {} /\ ArrowDown
    \/ inflight = {} /\ ArrowUp
    \/ inflight = {} /\ KeyEnter
    \/ inflight = {} /\ KeyEscape
    \/ inflight = {} /\ ClickSend

TeamSpec == Init /\ [][TeamNext]_vars

\* -------------------------------------------------------------- properties

\* A send cycle has just ended in failure / has just ended.
JustFailed == lastEvent' # lastEvent /\ lastEvent'.op = "failed"

HasLoading(area, id) == \E i \in DOMAIN area : IsLoading(area[i], id)

\* The position in `appended` of the user turn that cycle id pushed: the id-th
\* user turn, since every cycle pushes exactly one when it starts.
UserTurnIndex(id) ==
    CHOOSE i \in DOMAIN appended :
        /\ appended[i].role = "user"
        /\ Cardinality({j \in 1..i : appended[j].role = "user"}) = id

\* C1: at any time at most one chat request is in flight, whatever the
\* interleaving of key presses, clicks, health polls and chat responses.
C1_AtMostOneInFlight == Cardinality(inflight) <= 1

\* C2: in every reachable state, the states between the appends of one
\* multi-response exchange included, the history holds at most
\* MAX_CONVERSATION_LENGTH turns.
C2_HistoryBounded == Len(conversation) <= MAX_CONVERSATION_LENGTH

\* A burst of assistant turns is under way, more than MAX_CONVERSATION_LENGTH
\* turns have been pushed and the last displayResponse has trimmed the history.
C2_Witness ==
    /\ handling # 0 /\ pendingItems # <<>>
    /\ lastEvent.op = "display"
    /\ Len(appended) > MAX_CONVERSATION_LENGTH
    /\ Len(conversation) = MAX_CONVERSATION_LENGTH

\* C3: after N > MAX_CONVERSATION_LENGTH pushes the history is exactly the
\* MAX_CONVERSATION_LENGTH most recently pushed turns, in push order.
C3_KeepsMostRecent ==
    Len(appended) > MAX_CONVERSATION_LENGTH =>
        conversation = SubSeq(appended, Len(appended) - MAX_CONVERSATION_LENGTH + 1,
                              Len(appended))

\* The push of a user turn has just trimmed a full history whose oldest turn
\* differs from the one that remains oldest.
C3_Witness ==
    /\ lastEvent.op = "submit"
    /\ Len(appended) > MAX_CONVERSATION_LENGTH + 1
    /\ appended[1] # conversation[1]

\* C4: the body of a chat request is the history as it is when the request is
\* issued, and no later push or trim changes the body of a request in flight.
C4_BodyIsSnapshot ==
    [][ /\ \A r \in inflight' \ inflight : SentMessages(r)' = conversation'
        /\ \A r \in inflight \cap inflight' : SentMessages(r)' = SentMessages(r) ]_vars

\* A request is in flight whose body is no longer the current history.
C4_Witness == \E r \in inflight : SentMessages(r) # conversation

\* C5: while a chat request is in flight the submit control is disabled; a
\* health poll that settles meanwhile does not change it.
C5_DisabledWhileSending == inflight # {} => sendBtnDisabled

\* C6: once a health poll has settled, in every state with no send cycle under
\* way the submit control is enabled exactly when the last poll was a success.
C6_ControlFollowsPoll ==
    (statusIndicator # "none" /\ inflight = {} /\ handling = 0) =>
        (sendBtnDisabled <=> statusIndicator = "disconnected")

\* C7: while the last settled health poll reported disconnected, no step starts
\* a send cycle (pushes a user turn and issues a request).
C7_DisconnectedBlocksSend == [][statusIndicator = "disconnected" => sends' = sends]_vars

\* C8: every step that ends a send cycle in failure leaves no request in flight,
\* no handler running, the cycle's loading placeholder gone and the submit
\* control enabled.
C8_FailureLeavesIdle ==
    [][JustFailed =>
         /\ inflight' = {}
         /\ handling' = 0
         /\ ~HasLoading(chatArea', lastEvent'.id)
         /\ ~sendBtnDisabled']_vars

\* C9: when a cycle has ended by a transport error or a non-2xx response, the
\* history still holds the user turn the cycle pushed when it started.
C9_UserTurnKept ==
    (lastEvent.op = "failed" /\ lastEvent.kind \in {"reject", "status"}) =>
        \E i \in DOMAIN conversation :
            conversation[i] = appended[UserTurnIndex(lastEvent.id)]

\* C10: every cycle whose request is in flight eventually ends, through success
\* or failure, with the submit control enabled.
C10_SendingLeadsToIdle ==
    \A id \in 1..MaxSends :
        (\E r \in inflight : r.id = id)
            ~> (/\ lastEvent.op \in {"failed", "succeeded"}
                /\ lastEvent.id = id
                /\ ~sendBtnDisabled)

WhitespaceOnly(s) == \A i \in DOMAIN s : IsBlank(s[i])

\* t is s without its leading and trailing whitespace.
IsTrimOf(t, s) ==
    /\ t # <<>> => (~IsBlank(t[1]) /\ ~IsBlank(t[Len(t)]))
    /\ \E a \in 0..Len(s) :
          /\ a + Len(t) <= Len(s)
          /\ WhitespaceOnly(SubSeq(s, 1, a))
          /\ SubSeq(s, a + 1, a + Len(t)) = t
          /\ WhitespaceOnly(SubSeq(s, a + Len(t) + 1, Len(s)))

\* The step is a submit (Enter or click) that sendQuestion has answered.
SubmitAttempt == lastEvent' # lastEvent /\ lastEvent'.op \in {"ignored", "submit"}

LoadingCount(area) == Cardinality({i \in DOMAIN area : area[i].loading})

\* C11: a submit while the input is empty or holds only whitespace is a no-op:
\* no cycle starts, and the history, the message log (so no error bubble), the
\* input field, the submit control and the requests in flight stay as they are.
C11_EmptySubmitIsNoOp ==
    [][(SubmitAttempt /\ WhitespaceOnly(questionInput)) =>
         /\ lastEvent'.op = "ignored"
         /\ UNCHANGED <<conversation, appended, chatArea, questionInput,
                        sendBtnDisabled, statusIndicator, inflight, sends,
                        handling, pendingItems>>]_vars

\* A submit of a whitespace-only input has been ignored.
C11_Witness ==
    /\ lastEvent.op = "ignored"
    /\ questionInput = <<" ">>
    /\ chatArea = <<>> /\ conversation = <<>> /\ inflight = {}

\* C12: a submit with text left after trimming has, by the time its request is
\* issued, pushed the user turn {role: user, text: trimmed input} (the last turn
\* of the history and of the request's body), cleared the input field, disabled
\* the submit control and added exactly one loading placeholder, its own.
C12_SubmitPrepares ==
    [][(lastEvent' # lastEvent /\ lastEvent'.op = "submit") =>
         LET id == lastEvent'.id
             last == conversation'[Len(conversation')]
         IN /\ last.role = "user" /\ last.text # <<>>
            /\ IsTrimOf(last.text, questionInput)
            /\ appended' = Append(appended, last)
            /\ questionInput' = <<>>
            /\ sendBtnDisabled'
            /\ LoadingCount(chatArea') = LoadingCount(chatArea) + 1
            /\ Cardinality({i \in DOMAIN chatArea' : IsLoading(chatArea'[i], id)}) = 1
            /\ \E r \in inflight' \ inflight :
                  /\ r.id = id
                  /\ inflight' = inflight \cup {r}
                  /\ SentMessages(r)'[Len(SentMessages(r)')] = last]_vars

\* A submit of " hi " has just run: the turn "hi" is the last of the history,
\* the field is empty, the control disabled and the placeholder shown.
C12_Witness ==
    /\ lastEvent.op = "submit"
    /\ conversation # <<>>
    /\ conversation[Len(conversation)] = Turn("user", <<"h", "i">>)
    /\ questionInput = <<>>
    /\ sendBtnDisabled
    /\ HasLoading(chatArea, lastEvent.id)
    /\ \E r \in inflight : r.id = lastEvent.id

\* The last n elements of a sequence.
LastOf(seq, n) == SubSeq(seq, Len(seq) - n + 1, Len(seq))

\* The subsequence of the elements that satisfy Test, in order.
SelectIn(seq, Test(_)) ==
    LET F[i \in 0..Len(seq)] ==
            IF i = 0 THEN <<>>
            ELSE IF Test(seq[i]) THEN Append(F[i - 1], seq[i]) ELSE F[i - 1]
    IN F[Len(seq)]

\* The chat request settled last got a 2xx response / its send cycle is over.
GotSuccess == lastReply.kind = "http" /\ Ok(lastReply)
CycleOver == lastEvent.op \in {"succeeded", "failed"}

\* The body of the 2xx response as a JSON value, when the body is JSON.
Payload == lastReply.value

\* The items of a payload: the elements of its `responses` array, else itself.
ItemsOf(payload) ==
    IF payload.t = "obj" /\ IsArray(Get(payload, "responses"))
    THEN Get(payload, "responses").a
    ELSE <<payload>>

HasText(item) == ResponseText(item) # <<>>

\* The displayResponse under way shows its item (it does not raise).
Displays == handling # 0 /\ pendingItems # <<>> /\ lastEvent'.op = "display"

\* C13: when the cycle of a 2xx JSON payload is over, every item of the payload
\* (each element of an array-valued `responses`, else the payload as the one
\* item) has been normalized on its own: the display messages the cycle added
\* are those of the items, and the assistant turns it pushed those of the items
\* with a text, both in array order.
C13_ResponsesInOrder ==
    (GotSuccess /\ lastReply.json /\ CycleOver) =>
        LET items == ItemsOf(Payload)
            turns == SelectIn(items, HasText)
        IN /\ Len(chatArea) >= Len(items)
           /\ LastOf(chatArea, Len(items))
                 = [i \in DOMAIN items |-> DisplayMessage(variant, items[i])]
           /\ Len(appended) >= Len(turns)
           /\ LastOf(appended, Len(turns))
                 = [i \in DOMAIN turns |-> AssistantTurn(turns[i])]

\* C14: a displayResponse that shows a message with a non-empty extracted text
\* pushes exactly one assistant turn, whose text is "(" + agentName + ") " +
\* the raw text when the message carries an agent name and the raw text alone
\* when it carries none; one that shows an empty text pushes no turn.
C14_TurnPerMessage ==
    [][Displays =>
         LET text == ResponseText(Head(pendingItems))
             msg == chatArea'[Len(chatArea')]
             name == msg.header.name
             stored == IF name # <<>> THEN <<"(">> \o name \o <<")", " ">> \o text
                       ELSE text
         IN /\ chatArea' = Append(chatArea, msg)
            /\ IF text # <<>>
               THEN /\ appended' = Append(appended, Turn("assistant", stored))
                    /\ conversation' # <<>>
                    /\ conversation'[Len(conversation')] = Turn("assistant", stored)
               ELSE UNCHANGED <<appended, conversation>>]_vars

\* The 2xx response settled last has a body that JSON.parse rejects.
UnparseableBody == GotSuccess /\ ~lastReply.json

\* The bubble of a display message without header whose extracted text is text.
ShownMessage(text) ==
    El("assistant", FALSE, 0, TRUE, NoHeader, BreakLines(EscapeHtml(text)))

C16_NormalizationNeverRaises == (GotSuccess /\ lastReply.json) => lastEvent.op # "failed"

\* The object v has a member named k, whatever its value.
Has(v, k) == v.t = "obj" /\ \E i \in DOMAIN v.kv : v.kv[i][1] = k

\* A displayResponse is under way: the step, if any, is its run on the item
\* at the head of pendingItems.
Normalizing == handling # 0 /\ pendingItems # <<>>

\* The element the step has added to the message log, if it has added one.
Added == chatArea'[Len(chatArea')]

\* The text of one element of `messages`, by the fields it has.
PieceByPresence(msg) ==
    IF msg.t = "str" THEN msg.s
    ELSE IF Has(msg, "content") THEN ToText(Get(msg, "content"))
    ELSE IF Has(msg, "text") THEN ToText(Get(msg, "text"))
    ELSE IF Has(msg, "output") THEN ToText(Get(msg, "output"))
    ELSE Stringify(msg, FALSE)

\* The text of an item, by the fields it has.
TextByPresence(item) ==
    IF item.t = "str" THEN item.s
    ELSE IF Has(item, "output") THEN ToText(Get(item, "output"))
    ELSE IF Has(item, "response") THEN ToText(Get(item, "response"))
    ELSE IF Has(item, "messages") /\ IsArray(Get(item, "messages"))
    THEN LET ms == Get(item, "messages").a
         IN Join([i \in DOMAIN ms |-> PieceByPresence(ms[i])], <<"\n", "\n">>)
    ELSE IF item.t \in {"obj", "arr"} /\ KeyCount(item) > 0 THEN Stringify(item, TRUE)
    ELSE NoResponse

\* C17: the text of the display message of an item is chosen by the first of
\* these that applies: the item is a string (verbatim); it has an `output`
\* field; it has a `response` field; it has a `messages` array (per element the
\* string, else its content, text or output field, else its dump; joined by a
\* blank line); it is a non-empty object (its dump); else "No response
\* received".  A field that is present wins over every later one.
C17_TextByPrecedence ==
    [][Normalizing =>
         /\ Len(chatArea') = Len(chatArea) + 1
         /\ Added.html
         /\ Added.text = BreakLines(EscapeHtml(TextByPresence(Head(pendingItems))))]_vars

\* C18: normalizing one item always adds exactly one display message; a message
\* without agent or role header never has an empty text, the placeholder "No
\* response received" stands in for it, as it does for the item {}.
C18_OneMessagePerItem ==
    [][Normalizing =>
         /\ chatArea' = Append(chatArea, Added)
         /\ Added.html /\ ~Added.loading
         /\ Added.header = NoHeader => Added.text # <<>>
         /\ Head(pendingItems) = JObj(<<>>) => Added.text = NoResponse]_vars

\* agentName and agentAvatar of an item, by the fields it has.
NameByPresence(item) ==
    IF Has(item, "agent_meta") /\ Has(Get(item, "agent_meta"), "name")
    THEN ToText(Get(Get(item, "agent_meta"), "name"))
    ELSE IF Has(item, "agent") THEN ToText(Get(item, "agent"))
    ELSE <<>>

AvatarByPresence(item) ==
    IF Has(item, "agent_avatar") THEN ToText(Get(item, "agent_avatar"))
    ELSE IF Has(item, "agent_meta") /\ Has(Get(item, "agent_meta"), "avatar_url")
    THEN ToText(Get(Get(item, "agent_meta"), "avatar_url"))
    ELSE <<>>

\* The value of a field when the field holds a truthy value, else nothing.
Filled(v, k) == IF Truthy(Get(v, k)) THEN ToText(Get(v, k)) ELSE <<>>

\* agentName and agentAvatar of an item, by the fields that hold a truthy value.
NameIfFilled(item) ==
    IF Filled(Get(item, "agent_meta"), "name") # <<>>
    THEN Filled(Get(item, "agent_meta"), "name")
    ELSE Filled(item, "agent")

AvatarIfFilled(item) ==
    IF Filled(item, "agent_avatar") # <<>>
    THEN Filled(item, "agent_avatar")
    ELSE Filled(Get(item, "agent_meta"), "avatar_url")

Contains(text, sub) ==
    \E i \in 0..(Len(text) - Len(sub)) : SubSeq(text, i + 1, i + Len(sub)) = sub

ErrorCount(area) == Cardinality({i \in DOMAIN area : IsErrorMessage(area[i])})

\* The error detail of a non-2xx reply: detail, message, raw body, status text.
DetailOf(reply) ==
    IF reply.json /\ Has(reply.value, "detail") THEN ToText(Get(reply.value, "detail"))
    ELSE IF reply.json /\ Has(reply.value, "message")
    THEN ToText(Get(reply.value, "message"))
    ELSE IF BodyText(reply) # <<>> THEN BodyText(reply)
    ELSE reply.statusText

\* C20: the step that ends a cycle on a non-2xx response adds exactly one error
\* message, which holds the status code and the error detail: the `detail`
\* field of the body, else its `message` field, else the raw body, else the
\* status text.
C20_ErrorShowsStatusAndDetail ==
    [][(JustFailed /\ lastEvent'.kind = "status") =>
         /\ chatArea' = Append(RemoveLoading(chatArea, lastEvent'.id), Added)
         /\ ErrorCount(chatArea') = ErrorCount(chatArea) + 1
         /\ IsErrorMessage(Added)
         /\ Contains(Added.text, <<ToString(lastReply'.status)>>)
         /\ Contains(Added.text, DetailOf(lastReply'))]_vars

\* ------------------------------------------------------ the @mention engine

\* The texts an input event can leave in the field.
InputTexts == MentionTexts \cup TypedInputs

\* The position, from 0, of the last "@" strictly before the caret; -1 if there
\* is none.
AnchorOf(text, cursor) ==
    IF \E i \in 1..cursor : text[i] = "@"
    THEN (CHOOSE i \in 1..cursor :
              text[i] = "@" /\ \A j \in (i + 1)..cursor : text[j] # "@") - 1
    ELSE -1

\* The text between that "@" and the caret.
QueryOf(text, cursor) == SubSeq(text, AnchorOf(text, cursor) + 2, cursor)

\* The agents of the roster whose lowercased name or key contains the query.
Selected(roster, query) ==
    SelectIn(roster, LAMBDA a : \/ Contains(ToLowerCase(a.name), query)
                                \/ Contains(ToLowerCase(a.key), query))

\* C21: the list an input event opens holds exactly the agents whose lowercased
\* name or lowercased key contains the lowercased query (an empty query is
\* contained in every name), in the order of the roster; the query is the
\* lowercased text between the last "@" before the caret and the caret.
C21_MatchesInRosterOrder ==
    [][\A text \in InputTexts : \A cursor \in 0..Len(text) :
          (HandleInputChange(text, cursor) /\ suggestionsActive')
          => /\ suggestions' = Selected(agents, currentMention')
             /\ AnchorOf(text, cursor) # -1
                => currentMention' = ToLowerCase(QueryOf(text, cursor))]_vars

\* "hi @AN" has been typed: "An X" matches by name, Bo by key, Ed is left out.
C21_Witness ==
    /\ suggestionsActive
    /\ questionInput = <<"h","i"," ","@","A","N">>
    /\ currentMention = <<"a","n">>
    /\ agents = <<Ann, Bo, Ed>>
    /\ suggestions = <<Ann, Bo>>

\* C22: the anchor of the query an input event opens is the last "@" strictly
\* before the caret, and an input event that finds no "@" before the caret
\* (the caret at position 0 included) leaves no query active.
C22_AnchorBeforeCursor ==
    [][\A text \in InputTexts : \A cursor \in 0..Len(text) :
          HandleInputChange(text, cursor)
          => /\ suggestionsActive' => anchorIndex' = AnchorOf(text, cursor)
             /\ AnchorOf(text, cursor) = -1 => ~suggestionsActive']_vars

\* C23: an input event whose text holds a space or a newline between the last
\* "@" before the caret and the caret leaves no query active, whatever the
\* roster holds.
C23_SpaceEndsQuery ==
    [][\A text \in InputTexts : \A cursor \in 0..Len(text) :
          (/\ HandleInputChange(text, cursor)
           /\ AnchorOf(text, cursor) # -1
           /\ \/ Contains(QueryOf(text, cursor), <<" ">>)
              \/ Contains(QueryOf(text, cursor), <<"\n">>))
          => ~suggestionsActive' /\ currentMention' = <<>>]_vars

\* "@an x" stands before the caret and the roster holds the agent "An X", whose
\* name contains "an x": the list is closed.
C23_Witness ==
    /\ questionInput = <<"@","a","n"," ","x","@","y">>
    /\ selectionStart = 5
    /\ agents = <<Ann, Bo, Ed>>
    /\ anchorIndex = -1
    /\ ~suggestionsActive

\* C24: an input event with a query (an "@" before the caret, no space or
\* newline after it) opens the list exactly when some agent matches the query;
\* every input event that opens the list leaves nothing highlighted, whatever
\* was highlighted before; with no match the list is closed.
C24_ActiveIffMatches ==
    [][\A text \in InputTexts : \A cursor \in 0..Len(text) :
          HandleInputChange(text, cursor)
          => /\ suggestionsActive' => selectedSuggestionIndex' = -1
             /\ (/\ AnchorOf(text, cursor) # -1
                 /\ ~Contains(QueryOf(text, cursor), <<" ">>)
                 /\ ~Contains(QueryOf(text, cursor), <<"\n">>))
                => (suggestionsActive'
                    <=> Selected(agents, ToLowerCase(QueryOf(text, cursor))) # <<>>)]_vars

\* "@" has been typed with three agents in the roster: the list is open on all
\* of them and none is highlighted.
C24_Witness ==
    /\ suggestionsActive
    /\ selectedSuggestionIndex = -1
    /\ questionInput = <<"@">>
    /\ selectionStart = 1
    /\ Len(agents) = 3
    /\ suggestions = agents

\* C25: the highlight index is always between -1 and the number of listed
\* agents less one; ArrowDown moves it one down and stays on the last item,
\* ArrowUp moves it one up and stays on -1: neither goes round.
C25_IndexClamped ==
    [][/\ selectedSuggestionIndex' \in -1..(Len(suggestions') - 1)
       /\ ArrowDown => selectedSuggestionIndex' =
                          IF selectedSuggestionIndex = Len(suggestions) - 1
                          THEN selectedSuggestionIndex
                          ELSE selectedSuggestionIndex + 1
       /\ ArrowUp => selectedSuggestionIndex' =
                        IF selectedSuggestionIndex = -1
                        THEN -1
                        ELSE selectedSuggestionIndex - 1]_vars

\* The last of three listed agents is highlighted.
C25_Witness ==
    /\ suggestionsActive
    /\ Len(suggestions) = 3
    /\ selectedSuggestionIndex = 2

\* The text a field holds after the span from the "@" at `anchor` to the caret
\* at `cursor` has been replaced by "@" + name + " ".
Replaced(text, anchor, cursor, name) ==
    SubSeq(text, 1, anchor) \o <<"@">> \o name \o <<" ">>
    \o SubSeq(text, cursor + 1, Len(text))

\* An agent is taken from the open list: by a click on its item, or by Enter
\* on the highlighted item.
Commits(name) ==
    \/ \E i \in 1..Len(suggestions) : suggestions[i].name = name /\ ClickSuggestion(i)
    \/ /\ KeyEnter
       /\ suggestionsActive
       /\ selectedSuggestionIndex # -1
       /\ suggestions[selectedSuggestionIndex + 1].name = name

\* The names of the agents of the rosters.
Names == { a.name : a \in {Ann, Bo, Ed, Al} }

\* C26: taking an agent from the open list replaces the span from the "@" of
\* the query to the caret by "@" + name + " ", keeps the text before the "@"
\* and the text after the caret, and puts the caret behind the inserted space,
\* also when further "@" follow the caret.
C26_CommitReplacesQuery ==
    [][\A name \in Names :
          Commits(name)
          => /\ questionInput' =
                   Replaced(questionInput, anchorIndex, selectionStart, name)
             /\ selectionStart' = anchorIndex + Len(name) + 2]_vars

\* An agent of the sidebar is clicked while the suggestion list is closed.
Appends(name) ==
    \E i \in 1..Len(teamList) :
        teamList[i].name = name /\ ~suggestionsActive /\ ClickTeamMember(i)

\* C27: picking an agent while no query is active puts into the field the old
\* text, one space if the old text is not empty and does not end with a
\* space, and "@" + name + " ", and puts the caret at the end of the text.
C27_AppendAtEnd ==
    [][\A name \in Names :
          Appends(name)
          => /\ questionInput' =
                   questionInput
                   \o (IF questionInput = <<>> \/ questionInput[Len(questionInput)] = " "
                       THEN <<>> ELSE <<" ">>)
                   \o <<"@">> \o name \o <<" ">>
             /\ selectionStart' = Len(questionInput')]_vars

\* "@z" was in the field when Bo was picked in the sidebar.
C27_Witness ==
    /\ questionInput = <<"@","z"," ","@","B","o"," ">>
    /\ selectionStart = 7
    /\ ~suggestionsActive

\* An input event that has lost the context of a query: no "@" before the
\* caret, a space or a newline behind the "@", or no agent that matches.
LosesContext(text, cursor) ==
    \/ AnchorOf(text, cursor) = -1
    \/ Contains(QueryOf(text, cursor), <<" ">>)
    \/ Contains(QueryOf(text, cursor), <<"\n">>)
    \/ Selected(agents, ToLowerCase(QueryOf(text, cursor))) = <<>>

\* The steps that end a query: an agent is taken from the list or from the
\* sidebar, Escape, a click outside the field and the list, an input event
\* that has lost the context.
Destroys ==
    \/ \E name \in Names : Commits(name)
    \/ \E i \in 1..Len(teamList) : ClickTeamMember(i)
    \/ KeyEscape
    \/ ClickOutside
    \/ \E text \in InputTexts : \E cursor \in 0..Len(text) :
          HandleInputChange(text, cursor) /\ LosesContext(text, cursor)

\* C28: after each of these steps no query is left: the list is closed, the
\* query text is empty and nothing is highlighted.
C28_QueryDestroyed ==
    [][Destroys => /\ ~suggestionsActive'
                   /\ currentMention' = <<>>
                   /\ selectedSuggestionIndex' = -1]_vars

\* C29: Enter with the list open and an item highlighted takes that agent (its
\* "@" + name + " " is in the field and the query is over) and submits
\* nothing: the history, the message log, the requests and the send button
\* stay as they are.
C29_EnterCommitsHighlighted ==
    [][(KeyEnter /\ suggestionsActive /\ selectedSuggestionIndex # -1)
       => /\ lastEvent'.op = "commit"
          /\ Contains(questionInput',
                      <<"@">> \o suggestions[selectedSuggestionIndex + 1].name \o <<" ">>)
          /\ ~suggestionsActive'
          /\ UNCHANGED <<conversation, appended, chatArea, inflight, sends,
                         sendBtnDisabled>>]_vars

\* "hi @AN" was typed, Bo, the second item, highlighted and Enter pressed: the
\* field holds "hi @Bo " and nothing was sent.
C29_Witness ==
    /\ lastEvent.op = "commit"
    /\ questionInput = <<"h","i"," ","@","B","o"," ">>
    /\ selectionStart = 7
    /\ ~suggestionsActive
    /\ conversation = <<>>
    /\ inflight = {}
    /\ chatArea = <<>>

\* C30: an Enter press with nothing highlighted, the suggestion list open or
\* not, submits: with a field that is not blank a send cycle starts.
C30_EnterSubmitsWithoutHighlight ==
    [][(/\ lastEvent' # lastEvent
        /\ lastEvent'.kind = "enter"
        /\ selectedSuggestionIndex = -1
        /\ Trim(questionInput) # <<>>)
       => /\ lastEvent'.op = "submit"
          /\ sends' = sends + 1
          /\ Len(conversation') = Len(conversation) + 1]_vars

\* C31: Escape with the list open ends the query (list closed, query text
\* empty, nothing highlighted) and changes nothing else: the text of the
\* field, the caret, the history, the message log, the requests, the send
\* button and the running cycle stay as they are.
C31_EscapeOnlyDestroys ==
    [][(KeyEscape /\ suggestionsActive)
       => /\ ~suggestionsActive'
          /\ currentMention' = <<>>
          /\ selectedSuggestionIndex' = -1
          /\ UNCHANGED <<questionInput, selectionStart, conversation, appended,
                         chatArea, inflight, sends, sendBtnDisabled, handling,
                         pendingItems, statusIndicator, agents>>]_vars

\* "hi @AN" opened the list with the caret at its end, and the list is closed
\* again with the text and the caret where they were.
C31_Witness ==
    /\ ~suggestionsActive
    /\ anchorIndex = 3
    /\ questionInput = <<"h","i"," ","@","A","N">>
    /\ selectionStart = 6
    /\ currentMention = <<>>
    /\ selectedSuggestionIndex = -1
    /\ sends = 0

\* "hi @Str" with the caret at its end, and the agent Strategy highlighted in
\* the open list.
HiStr == <<"h","i"," ","@","S","t","r">>

StrategyHighlighted ==
    /\ suggestionsActive
    /\ questionInput = HiStr
    /\ selectionStart = Len(HiStr)
    /\ selectedSuggestionIndex # -1
    /\ suggestions[selectedSuggestionIndex + 1] = Strategy

\* What the scenario has in common in both readings: typing "hi @Str" with
\* Strategy in the roster lists that agent alone; Enter with it highlighted
\* closes the list and submits nothing.
ScenarioFrame ==
    /\ (HandleInputChange(HiStr, Len(HiStr)) /\ \E i \in DOMAIN agents : agents[i] = Strategy)
       => suggestionsActive' /\ suggestions' = <<Strategy>>
    /\ (KeyEnter /\ StrategyHighlighted)
       => /\ ~suggestionsActive'
          /\ UNCHANGED <<conversation, appended, chatArea, inflight, sends>>

\* C32, as stated: Enter with Strategy highlighted rewrites the field to
\* "@Strategy ".
C32_FieldBecomesMention ==
    [][/\ ScenarioFrame
       /\ (KeyEnter /\ StrategyHighlighted)
          => questionInput' = <<"@">> \o Strategy.name \o <<" ">>]_vars

\* C32, amended: Enter with Strategy highlighted rewrites "@Str" to
\* "@Strategy " and keeps the greeting: the field holds "hi @Strategy " with the
\* caret at its end.
C32_MentionReplacesQuery ==
    [][/\ ScenarioFrame
       /\ (KeyEnter /\ StrategyHighlighted)
          => /\ questionInput' = <<"h","i"," ","@">> \o Strategy.name \o <<" ">>
             /\ selectionStart' = Len(questionInput')]_vars

\* The field holds "hi @Strategy " after the Enter that took the agent, and
\* nothing was sent.
C32_Witness ==
    /\ lastEvent.op = "commit"
    /\ questionInput = <<"h","i"," ","@">> \o Strategy.name \o <<" ">>
    /\ ~suggestionsActive
    /\ conversation = <<>>
    /\ sends = 0

\* C33: every settling of a health poll, whatever its outcome, schedules the
\* next poll, a chain once started never ends, and with timers that fire and
\* requests that settle polls are issued and settle again and again.
C33_PollingNeverStops ==
    /\ [][pollsInFlight' < pollsInFlight => pollsScheduled' = pollsScheduled + 1]_vars
    /\ [](PollChains >= 1)
    /\ []<><<HealthTimer>>_vars
    /\ []<><<\E outcome \in HealthOutcomes : HealthSettles(outcome)>>_vars

\* A poll has failed and the next one is scheduled.
C33_Witness ==
    /\ statusIndicator = "disconnected"
    /\ pollsScheduled > 0

\* The turns a step has pushed.
Pushed == SubSeq(appended', Len(appended) + 1, Len(appended'))

\* C34: a step changes the history only by pushing a turn at its end and
\* dropping turns from its front: what remains of the old turns keeps its
\* content and order, nothing changes without a push, and the history is at
\* all times the tail of the turns in the order their pushes ran, also when
\* two send cycles overlap.
C34_HistoryOnlyShifts ==
    [][/\ Len(Pushed) <= 1
       /\ Pushed = <<>> => conversation' = conversation
       /\ \E k \in 0..Len(conversation) :
             conversation' = SubSeq(conversation, k + 1, Len(conversation)) \o Pushed
       /\ conversation' = LastOf(appended', Len(conversation'))]_vars

\* Two cycles overlap: the second user turn was pushed before the first answer.
C34_Witness ==
    /\ Len(appended) >= 3
    /\ appended[1].role = "user"
    /\ appended[2].role = "user"
    /\ appended[3].role = "assistant"
    /\ conversation = appended

\* C35: the request a submit issues carries at least one turn, and the last
\* turn it carries is the user turn of that submit, whose text is the trimmed
\* text of the field, also when the push has made the history overflow.
C35_BodyEndsWithQuestion ==
    [][(lastEvent' # lastEvent /\ lastEvent'.op = "submit")
       => \E r \in inflight' \ inflight :
             /\ r.id = lastEvent'.id
             /\ r.body.messages # <<>>
             /\ r.body.messages[Len(r.body.messages)].role = "user"
             /\ IsTrimOf(r.body.messages[Len(r.body.messages)].text, questionInput)
             /\ r.body.messages[Len(r.body.messages)].text # <<>>]_vars

\* A submit has just pushed its turn onto a full history: the request carries
\* MAX_CONVERSATION_LENGTH turns and ends with that turn.
C35_Witness ==
    /\ lastEvent.op = "submit"
    /\ Len(appended) > MAX_CONVERSATION_LENGTH
    /\ \E r \in inflight :
          /\ r.id = lastEvent.id
          /\ Len(r.body.messages) = MAX_CONVERSATION_LENGTH
          /\ r.body.messages[MAX_CONVERSATION_LENGTH] = appended[Len(appended)]

\* The step shows an error message as the last message of the log.
ShowsError ==
    /\ chatArea' # chatArea
    /\ chatArea' # <<>>
    /\ IsErrorMessage(chatArea'[Len(chatArea')])

\* C36: a send cycle that ends by showing an error message has stored no
\* assistant turn; stated for the first cycle of a session, with no other
\* cycle begun: when it ends with an error message the history holds the one
\* user turn and nothing else, also when the error is raised after elements of
\* a `responses` array have been shown.
C36_ErrorAddsNoTurn ==
    [][(JustFailed /\ ShowsError /\ sends = 1 /\ lastEvent'.id = 1)
       => /\ Len(appended') = 1
          /\ appended'[1].role = "user"
          /\ conversation' = appended']_vars

\* C37: every turn of the history has a text that is not empty.
C37_NoEmptyTurn == \A i \in DOMAIN conversation : conversation[i].text # <<>>

\* C38: an open suggestion list is never empty, and while the list is closed
\* the stored query text is empty and nothing is highlighted.
C38_MentionStateConsistent ==
    /\ suggestionsActive => suggestions # <<>>
    /\ ~suggestionsActive => currentMention = <<>> /\ selectedSuggestionIndex = -1

\* "@" had opened the list on three agents; the list is closed again, its
\* items still in the hidden element, and the query state is reset.
C38_Witness ==
    /\ ~suggestionsActive
    /\ questionInput = <<"@">>
    /\ anchorIndex = 0
    /\ Len(suggestions) = 3
    /\ currentMention = <<>>
    /\ selectedSuggestionIndex = -1

\* C39: at any time at most one health poll is in flight or scheduled, however
\* many send cycles have ended.
C39_OnePollChain == PollChains <= 1

====
